---- MODULE Spec2Model ----
(***************************************************************************)
(* RADIUS accounting engine of freradius-captive-portal/backend:           *)
(*   app/api/v1/accounting.py          POST /accounting/radius (gateway)   *)
(*   app/api/v1/accounting_helpers.py  Start / Stop / Interim-Update       *)
(*   app/models/accounting.py          RadAcct rows (table radacct)        *)
(*   app/services/accounting_service.py  the accounting queries          *)
(*                                                                         *)
(* A nullable column or Optional[str] field is a set with at most one      *)
(* element: None is {} and a present value v is {v}.                       *)
(*                                                                         *)
(* A request is handled in at most two steps that touch the shared store:  *)
(* the open-record lookup (with everything the handler computes locally    *)
(* up to its call of db.commit()), and the flush+commit.  Spec runs one    *)
(* request at a time; SpecConc interleaves the steps of several requests,  *)
(* each with its own database session (get_db).                            *)
(* SpecUsage runs one request at a time over several days; the queries of  *)
(* AccountingService are operators over the committed rows and the clock.  *)
(* SpecFrame runs several (username, session_id) pairs, SpecLive a store   *)
(* that may stop answering, SpecNull a table that holds a row written by   *)
(* FreeRADIUS with null columns.                                           *)
(***************************************************************************)
EXTENDS Integers, Sequences, FiniteSets, TLC

\* ------------------------------------------------------------------ bounds
MaxEvents == 4          \* requests received in one behaviour of Spec
MaxConcEvents == 3      \* requests received in one behaviour of SpecConc
MaxClock == 2           \* last tick of the clock
TicksPerSecond == 2     \* clock ticks in one second of datetime.now()
NumProcs == 2           \* requests in flight at once in SpecConc
MaxUsageEvents == 3     \* requests received in one behaviour of SpecUsage
MaxDays == 2            \* last day of the clock in SpecUsage
MaxFrameEvents == 3     \* requests received in one behaviour of SpecFrame
MaxLiveEvents == 2      \* requests received in one behaviour of SpecLive
MaxNullEvents == 2      \* requests received in one behaviour of SpecNull

\* ------------------------------------------------------- Optional values
None == {}
Some(x) == {x}
Get(o) == CHOOSE x \in o : TRUE

\* Python truthiness of an Optional[str]: None and "" are falsy.
Truthy(o) == o # None /\ o # Some("")

\* ------------------------------------------------------------ Python int()
DigitChars == "0123456789"
IsDigit(c) == \E d \in 0..9 : SubSeq(DigitChars, d + 1, d + 1) = c
DigitVal(c) == CHOOSE d \in 0..9 : SubSeq(DigitChars, d + 1, d + 1) = c
IsSpace(c) == c \in {" ", "\t", "\n", "\r"}

RECURSIVE LStrip(_)
LStrip(s) ==
    IF s # "" /\ IsSpace(SubSeq(s, 1, 1)) THEN LStrip(SubSeq(s, 2, Len(s))) ELSE s

RECURSIVE RStrip(_)
RStrip(s) ==
    IF s # "" /\ IsSpace(SubSeq(s, Len(s), Len(s)))
    THEN RStrip(SubSeq(s, 1, Len(s) - 1)) ELSE s

\* str.strip()
Strip(s) == RStrip(LStrip(s))

RECURSIVE AllDigits(_)
AllDigits(s) ==
    s = "" \/ (IsDigit(SubSeq(s, 1, 1)) /\ AllDigits(SubSeq(s, 2, Len(s))))

RECURSIVE DigitsValue(_)
DigitsValue(s) ==
    IF s = "" THEN 0
    ELSE 10 * DigitsValue(SubSeq(s, 1, Len(s) - 1))
         + DigitVal(SubSeq(s, Len(s), Len(s)))

\* The unsigned part of an int() literal: the text after an optional sign.
Unsigned(s) ==
    IF s # "" /\ SubSeq(s, 1, 1) \in {"+", "-"} THEN SubSeq(s, 2, Len(s)) ELSE s

\* int(s) for a str s: surrounding whitespace, an optional sign, decimal
\* digits.  ok = FALSE is ValueError.  (Underscore separators are not in the
\* alphabet of the requests below.)
IntOfStr(s) ==
    LET t == Strip(s)
        u == Unsigned(t)
    IN  IF u # "" /\ AllDigits(u)
        THEN [ok |-> TRUE,
              val |-> IF SubSeq(t, 1, 1) = "-" THEN 0 - DigitsValue(u)
                      ELSE DigitsValue(u)]
        ELSE [ok |-> FALSE, val |-> 0]

\* int(field or 0)
IntOrZero(o) == IF Truthy(o) THEN IntOfStr(Get(o)) ELSE [ok |-> TRUE, val |-> 0]

\* `field if field and field.strip() else None`
StripOrNone(o) == IF Truthy(o) /\ Strip(Get(o)) # "" THEN o ELSE None

\* --------------------------------------------------------------- requests
\* RadiusAccountingRequest, with the fields a handler reads (input_packets,
\* output_packets and nas_identifier are carried by the request and read by
\* no handler).
RadiusAccountingRequest(status, user, sid, report, net, cause) ==
    [username |-> user, session_id |-> sid, status_type |-> status,
     input_octets |-> report[1], output_octets |-> report[2],
     session_time |-> report[3],
     nas_ip_address |-> net[1], framed_ip_address |-> net[2],
     calling_station_id |-> net[3], called_station_id |-> net[4],
     terminate_cause |-> cause]

\* The field defaults of RadiusAccountingRequest.
DefaultReport == <<Some("0"), Some("0"), Some("0")>>
DefaultNet == <<None, None, None, None>>

Users == {"alice", "bob"}
SessionIds == {"S1"}

FirstReport == <<Some("1000"), Some("2000"), Some("60")>>
LastReport == <<Some("5000"), Some("9000"), Some("120")>>
EmptyReport == <<None, Some(""), Some(" 7 ")>>
BadReport == <<Some("abc"), Some("10"), Some("5")>>
FullNet == <<Some("10.0.0.1"), Some("10.0.0.5"), Some("AA:BB"), Some("AP1")>>
BlankNet == <<Some(""), Some(""), Some(" "), Some("")>>

\* alice sends every variant, bob the plain ones.
StartVariants(u) ==
    IF u = "alice"
    THEN { <<DefaultReport, DefaultNet, None>>,
           <<DefaultReport, FullNet, None>>,
           <<EmptyReport, BlankNet, Some("")>>,
           <<BadReport, DefaultNet, None>>,
           <<FirstReport, DefaultNet, Some("Lost-Carrier")>> }
    ELSE { <<DefaultReport, FullNet, None>> }

UpdateVariants(u) ==
    IF u = "alice" THEN {FirstReport, DefaultReport, BadReport} ELSE {FirstReport}

StopVariants(u) ==
    IF u = "alice"
    THEN { <<LastReport, Some("User-Request")>>,
           <<EmptyReport, None>>,
           <<BadReport, None>> }
    ELSE { <<LastReport, Some("User-Request")>> }

StartRequests ==
    UNION { { RadiusAccountingRequest("Start", u, s, v[1], v[2], v[3]) :
                s \in SessionIds, v \in StartVariants(u) } : u \in Users }

UpdateRequests ==
    UNION { { RadiusAccountingRequest("Interim-Update", u, s, r, DefaultNet, None) :
                s \in SessionIds, r \in UpdateVariants(u) } : u \in Users }

StopRequests ==
    UNION { { RadiusAccountingRequest("Stop", u, s, v[1], DefaultNet, v[2]) :
                s \in SessionIds, v \in StopVariants(u) } : u \in Users }

OtherRequests ==
    { RadiusAccountingRequest(t, "alice", s, DefaultReport, DefaultNet, None) :
        t \in {"Post-Auth", "Accounting-On"}, s \in SessionIds }

Requests == StartRequests \cup UpdateRequests \cup StopRequests \cup OtherRequests

\* The requests of SpecConc: one user, the well-formed reports.
ConcRequests ==
    { r \in Requests :
        /\ r.username = "alice"
        /\ r.input_octets # Some("abc")
        /\ r.nas_ip_address = None }

\* The requests of SpecUsage: a session of alice from Start to Stop (with the
\* last report, or with a report of zeros) and a session of bob, with
\* well-formed reports.
UsageRequests ==
    { RadiusAccountingRequest("Start", "alice", "S1", DefaultReport, DefaultNet, None),
      RadiusAccountingRequest("Interim-Update", "alice", "S1", FirstReport, DefaultNet, None),
      RadiusAccountingRequest("Stop", "alice", "S1", LastReport, DefaultNet,
                              Some("User-Request")),
      RadiusAccountingRequest("Stop", "alice", "S1", DefaultReport, DefaultNet, None),
      RadiusAccountingRequest("Start", "bob", "S1", DefaultReport, FullNet, None),
      RadiusAccountingRequest("Interim-Update", "bob", "S1", FirstReport, DefaultNet, None) }
    \cup OtherRequests

\* The requests of SpecFrame: two sessions of alice and a session of bob that
\* shares its session id with one of them.
FramePairs == { <<"alice", "S1">>, <<"alice", "S2">>, <<"bob", "S1">> }

FrameRequests ==
    UNION { { RadiusAccountingRequest("Start", k[1], k[2], DefaultReport, DefaultNet, None),
              RadiusAccountingRequest("Interim-Update", k[1], k[2], FirstReport,
                                      DefaultNet, None),
              RadiusAccountingRequest("Stop", k[1], k[2], LastReport, DefaultNet,
                                      Some("User-Request")) } : k \in FramePairs }
    \cup OtherRequests

\* The requests of SpecNull: a session of alice that starts with octets, and
\* events for the session of bob.
NullRequests ==
    { RadiusAccountingRequest("Start", "alice", "S1", FirstReport, DefaultNet,
                              Some("Lost-Carrier")),
      RadiusAccountingRequest("Interim-Update", "bob", "S1", FirstReport, DefaultNet, None),
      RadiusAccountingRequest("Stop", "bob", "S1", LastReport, DefaultNet,
                              Some("User-Request")) }
    \cup OtherRequests

NoRequest == RadiusAccountingRequest("", "", "", DefaultReport, DefaultNet, None)

\* ------------------------------------------------------------------ state
VARIABLES
    store,      \* table radacct: the sequence of committed rows, radacctid = index
    now,        \* the clock, in ticks
    pc,         \* per request slot: "idle", "commit" (about to call db.commit()), or
                \* "blocked" (waiting for a store that never answers)
    req,        \* per slot: the last request answered
    pending,    \* per slot: the request in flight and what its session will flush
    resp,       \* per slot: the response to the last request answered
    outcome,    \* per slot: the branch the last request answered took (its log line)
    redelivered,\* per slot: the last request answered repeated the one answered
                \* with success just before it
    received    \* number of requests received so far

vars == <<store, now, pc, req, pending, resp, outcome, redelivered, received>>

Procs == 1..NumProcs

NoPending == [kind |-> "none"]
NoResponse == [status |-> "none", error |-> ""]

Init ==
    /\ store = <<>>
    /\ now = 0
    /\ pc = [p \in Procs |-> "idle"]
    /\ req = [p \in Procs |-> NoRequest]
    /\ pending = [p \in Procs |-> NoPending]
    /\ resp = [p \in Procs |-> NoResponse]
    /\ outcome = [p \in Procs |-> "none"]
    /\ redelivered = [p \in Procs |-> FALSE]
    /\ received = 0

\* ------------------------------------------------------------- the gateway
\* clean_request_data: '' becomes None in the fields it cleans.
CleanField(o) == IF o = Some("") THEN None ELSE o

clean_request_data(request) ==
    [request EXCEPT !.framed_ip_address = CleanField(@),
                    !.calling_station_id = CleanField(@),
                    !.called_station_id = CleanField(@),
                    !.terminate_cause = CleanField(@)]

\* The chain without its Post-Auth branch of its own: Post-Auth handled by the
\* Interim-Update branch.
Dispatch_PostAuthAsUpdate(status_type) ==
    CASE status_type = "Start" -> "start"
      [] status_type = "Stop" -> "stop"
      [] status_type \in {"Interim-Update", "Post-Auth"} -> "update"
      [] OTHER -> "unknown"

\* The if/elif chain of radius_accounting on status_type.
Dispatch(status_type) ==
    CASE status_type = "Start" -> "start"
      [] status_type = "Stop" -> "stop"
      [] status_type = "Interim-Update" -> "update"
      [] status_type = "Post-Auth" -> "post-auth"
      [] OTHER -> "unknown"

\* radius_accounting catching ValueError alone: any other exception reaches
\* the caller.
GatewayResponse_CatchesValueError(raised) ==
    IF raised = "" THEN [status |-> "success", error |-> ""]
    ELSE IF raised = "ValueError" THEN [status |-> "error", error |-> raised]
    ELSE [status |-> "exception", error |-> raised]

\* What radius_accounting returns: the success dictionary when the handler
\* returned, the error dictionary (with str(e)) when it raised.
GatewayResponse(raised) ==
    IF raised = "" THEN [status |-> "success", error |-> ""]
    ELSE [status |-> "error", error |-> raised]

\* ------------------------------------------------------------- the handlers
\* The query with acctuniqueid compared in place of acctsessionid.
OpenSessions_WrongColumn(st, request) ==
    { i \in DOMAIN st :
        /\ st[i].username = request.username
        /\ st[i].acctuniqueid = request.session_id
        /\ st[i].acctstoptime = None }

\* The query without its filter on acctsessionid.
OpenSessions_AnySessionId(st, request) ==
    { i \in DOMAIN st :
        /\ st[i].username = request.username
        /\ st[i].acctstoptime = None }

\* The query without its filter on acctstoptime.
OpenSessions_AnyRecord(st, request) ==
    { i \in DOMAIN st :
        /\ st[i].username = request.username
        /\ st[i].acctsessionid = request.session_id }

\* The rows the handlers' query matches: username, acctsessionid, no stop time.
OpenSessions(st, request) ==
    { i \in DOMAIN st :
        /\ st[i].username = request.username
        /\ st[i].acctsessionid = request.session_id
        /\ st[i].acctstoptime = None }

Min(a, b) == IF a <= b THEN a ELSE b

\* f"{request.session_id[:16]}-{int(datetime.now().timestamp())}"
UniqueId(session_id, t) ==
    SubSeq(session_id, 1, Min(16, Len(session_id))) \o "-"
        \o ToString(t \div TicksPerSecond)

\* The row built with `x or ""` for the three network identifiers.
NewSession_BlankDefault(request, t) ==
    [acctsessionid |-> request.session_id,
     acctuniqueid |-> UniqueId(request.session_id, t),
     username |-> request.username,
     nasipaddress |-> IF Truthy(request.nas_ip_address)
                      THEN Get(request.nas_ip_address) ELSE "127.0.0.1",
     acctstarttime |-> Some(t),
     acctupdatetime |-> None,
     acctstoptime |-> None,
     acctsessiontime |-> None,
     acctinputoctets |-> Some(IntOrZero(request.input_octets).val),
     acctoutputoctets |-> Some(IntOrZero(request.output_octets).val),
     framedipaddress |-> IF Truthy(request.framed_ip_address)
                         THEN request.framed_ip_address ELSE Some(""),
     callingstationid |-> IF Truthy(request.calling_station_id)
                          THEN request.calling_station_id ELSE Some(""),
     calledstationid |-> IF Truthy(request.called_station_id)
                         THEN request.called_station_id ELSE Some(""),
     acctterminatecause |-> StripOrNone(request.terminate_cause)]

\* The RadAcct(...) row _handle_accounting_start builds at time t.
NewSession(request, t) ==
    [acctsessionid |-> request.session_id,
     acctuniqueid |-> UniqueId(request.session_id, t),
     username |-> request.username,
     nasipaddress |-> IF Truthy(request.nas_ip_address)
                      THEN Get(request.nas_ip_address) ELSE "127.0.0.1",
     acctstarttime |-> Some(t),
     acctupdatetime |-> None,
     acctstoptime |-> None,
     acctsessiontime |-> None,
     acctinputoctets |-> Some(IntOrZero(request.input_octets).val),
     acctoutputoctets |-> Some(IntOrZero(request.output_octets).val),
     framedipaddress |-> StripOrNone(request.framed_ip_address),
     callingstationid |-> StripOrNone(request.calling_station_id),
     calledstationid |-> StripOrNone(request.called_station_id),
     acctterminatecause |-> StripOrNone(request.terminate_cause)]

\* The int() calls of _handle_accounting_start all return.
StartParses(request) ==
    IntOrZero(request.input_octets).ok /\ IntOrZero(request.output_octets).ok

\* _handle_accounting_stop without its assignments of the final octet counts.
StopValues_KeepsCounters(request, t) ==
    [acctstoptime |-> Some(t),
     acctsessiontime |-> Some(IntOrZero(request.session_time).val),
     acctterminatecause |-> request.terminate_cause]

\* The attributes _handle_accounting_stop assigns at time t.
StopValues(request, t) ==
    [acctstoptime |-> Some(t),
     acctsessiontime |-> Some(IntOrZero(request.session_time).val),
     acctinputoctets |-> Some(IntOrZero(request.input_octets).val),
     acctoutputoctets |-> Some(IntOrZero(request.output_octets).val),
     acctterminatecause |-> request.terminate_cause]

\* _handle_accounting_update also stamping the start time anew.
UpdateValues_RestampsStart(request, t) ==
    [acctstarttime |-> Some(t),
     acctupdatetime |-> Some(t),
     acctinputoctets |-> Some(IntOrZero(request.input_octets).val),
     acctoutputoctets |-> Some(IntOrZero(request.output_octets).val),
     acctsessiontime |-> Some(IntOrZero(request.session_time).val)]

\* The attributes _handle_accounting_update assigns at time t.
UpdateValues(request, t) ==
    [acctupdatetime |-> Some(t),
     acctinputoctets |-> Some(IntOrZero(request.input_octets).val),
     acctoutputoctets |-> Some(IntOrZero(request.output_octets).val),
     acctsessiontime |-> Some(IntOrZero(request.session_time).val)]

\* The int() calls of _handle_accounting_stop / _handle_accounting_update
\* all return.
ReportParses(request) ==
    /\ IntOrZero(request.session_time).ok
    /\ IntOrZero(request.input_octets).ok
    /\ IntOrZero(request.output_octets).ok

\* The UPDATE adding the reported octets to the stored ones
\* (SET acctinputoctets = acctinputoctets + :reported).
Flushed_SumsOctets(row, loaded, values) ==
    [c \in DOMAIN row |->
        IF c \in DOMAIN values /\ c \in {"acctinputoctets", "acctoutputoctets"}
        THEN {Get(row[c]) + Get(values[c])}
        ELSE IF c \in DOMAIN values /\ values[c] # loaded[c] THEN values[c]
        ELSE row[c]]

\* The UPDATE never lowering a counter: GREATEST(stored, reported).
Flushed_KeepsMax(row, loaded, values) ==
    [c \in DOMAIN row |->
        IF c \in DOMAIN values /\ values[c] # loaded[c]
        THEN IF c \in {"acctinputoctets", "acctoutputoctets", "acctsessiontime"}
                /\ row[c] # None /\ Get(row[c]) > Get(values[c])
             THEN row[c] ELSE values[c]
        ELSE row[c]]

\* db.commit() of a session that assigned `values` to the row it loaded as
\* `loaded`: the UPDATE of row `id` carries the columns whose assigned value
\* differs from the loaded one.
Flushed(row, loaded, values) ==
    [c \in DOMAIN row |->
        IF c \in DOMAIN values /\ values[c] # loaded[c] THEN values[c] ELSE row[c]]

\* The unique index on radacct.acctuniqueid admits the row.
UniqueIdFree(st, row) == \A i \in DOMAIN st : st[i].acctuniqueid # row.acctuniqueid

\* ---------------------------------------------------------------- actions
\* Slot p receives a request: radius_accounting is entered.
Receive(p, max) ==
    /\ pc[p] = "idle"
    /\ received < max
    /\ received' = received + 1

\* p is the lowest idle slot.
LowestIdle(p) == pc[p] = "idle" /\ \A q \in Procs : q < p => pc[q] # "idle"

\* radius_accounting returns: `raised` is "" when the handler returned and
\* the exception's name when it raised (the handler has rolled back).
Return(p, request, raised, branch) ==
    /\ pc' = [pc EXCEPT ![p] = "idle"]
    /\ req' = [req EXCEPT ![p] = request]
    /\ pending' = [pending EXCEPT ![p] = NoPending]
    /\ resp' = [resp EXCEPT ![p] = GatewayResponse(raised)]
    /\ outcome' = [outcome EXCEPT ![p] = branch]
    /\ redelivered' = [redelivered EXCEPT ![p] =
                          request = req[p] /\ resp[p].status = "success"]

\* The handler of slot p reaches db.commit() with `work` in its session.
ReachCommit(p, work) ==
    /\ pc' = [pc EXCEPT ![p] = "commit"]
    /\ pending' = [pending EXCEPT ![p] = work]
    /\ UNCHANGED <<req, resp, outcome, redelivered>>

\* _handle_accounting_start overwriting the counters of the open record it
\* finds.
handle_accounting_start_Upserts(p, raw, request, dbok) ==
    IF ~dbok THEN Return(p, raw, "OperationalError", "error")
    ELSE IF ~StartParses(request) THEN Return(p, raw, "ValueError", "error")
    ELSE IF OpenSessions(store, request) # {}
    THEN \E i \in OpenSessions(store, request) :
            ReachCommit(p, [kind |-> "update", request |-> raw,
                            id |-> i, loaded |-> store[i],
                            values |-> [acctinputoctets |->
                                            Some(IntOrZero(request.input_octets).val),
                                        acctoutputoctets |->
                                            Some(IntOrZero(request.output_octets).val)],
                            branch |-> "duplicate"])
    ELSE ReachCommit(p, [kind |-> "insert", request |-> raw,
                         row |-> NewSession(request, now)])

\* _handle_accounting_start up to db.commit(); dbok = FALSE: the query raises.
handle_accounting_start(p, raw, request, dbok) ==
    IF ~dbok THEN Return(p, raw, "OperationalError", "error")
    ELSE IF OpenSessions(store, request) # {} THEN Return(p, raw, "", "duplicate")
    ELSE IF ~StartParses(request) THEN Return(p, raw, "ValueError", "error")
    ELSE ReachCommit(p, [kind |-> "insert", request |-> raw,
                         row |-> NewSession(request, now)])

\* _handle_accounting_stop inserting a closed record when it finds no open one.
handle_accounting_stop_InsertsOrphan(p, raw, request, dbok) ==
    IF ~dbok THEN Return(p, raw, "OperationalError", "error")
    ELSE IF ~ReportParses(request) THEN Return(p, raw, "ValueError", "error")
    ELSE IF OpenSessions(store, request) = {}
    THEN ReachCommit(p, [kind |-> "insert", request |-> raw,
                         row |-> Flushed(NewSession(request, now),
                                         NewSession(request, now),
                                         StopValues(request, now))])
    ELSE \E i \in OpenSessions(store, request) :
            ReachCommit(p, [kind |-> "update", request |-> raw,
                            id |-> i, loaded |-> store[i],
                            values |-> StopValues(request, now),
                            branch |-> "stopped"])

\* _handle_accounting_stop up to db.commit(); .first() has no ORDER BY and
\* returns any matching row.
handle_accounting_stop(p, raw, request, dbok) ==
    IF ~dbok THEN Return(p, raw, "OperationalError", "error")
    ELSE IF OpenSessions(store, request) = {} THEN Return(p, raw, "", "orphan")
    ELSE IF ~ReportParses(request) THEN Return(p, raw, "ValueError", "error")
    ELSE \E i \in OpenSessions(store, request) :
            ReachCommit(p, [kind |-> "update", request |-> raw,
                            id |-> i, loaded |-> store[i],
                            values |-> StopValues(request, now),
                            branch |-> "stopped"])

\* _handle_accounting_update up to db.commit().
handle_accounting_update(p, raw, request, dbok) ==
    IF ~dbok THEN Return(p, raw, "OperationalError", "error")
    ELSE IF OpenSessions(store, request) = {} THEN Return(p, raw, "", "orphan")
    ELSE IF ~ReportParses(request) THEN Return(p, raw, "ValueError", "error")
    ELSE \E i \in OpenSessions(store, request) :
            ReachCommit(p, [kind |-> "update", request |-> raw,
                            id |-> i, loaded |-> store[i],
                            values |-> UpdateValues(request, now),
                            branch |-> "updated"])

Start(p, request, dbok, max) ==
    /\ Dispatch(clean_request_data(request).status_type) = "start"
    /\ Receive(p, max)
    /\ handle_accounting_start(p, request, clean_request_data(request), dbok)
    /\ UNCHANGED <<store, now>>

Stop(p, request, dbok, max) ==
    /\ Dispatch(clean_request_data(request).status_type) = "stop"
    /\ Receive(p, max)
    /\ handle_accounting_stop(p, request, clean_request_data(request), dbok)
    /\ UNCHANGED <<store, now>>

InterimUpdate(p, request, dbok, max) ==
    /\ Dispatch(clean_request_data(request).status_type) = "update"
    /\ Receive(p, max)
    /\ handle_accounting_update(p, request, clean_request_data(request), dbok)
    /\ UNCHANGED <<store, now>>

\* Post-Auth: logged only.
PostAuth(p, request, max) ==
    /\ Dispatch(clean_request_data(request).status_type) = "post-auth"
    /\ Receive(p, max)
    /\ Return(p, request, "", "post-auth")
    /\ UNCHANGED <<store, now>>

\* The else branch raising in place of logging a warning.
UnknownStatus_Rejects(p, request, max) ==
    /\ Dispatch(clean_request_data(request).status_type) = "unknown"
    /\ Receive(p, max)
    /\ Return(p, request, "ValueError", "unknown")
    /\ UNCHANGED <<store, now>>

\* Any other status type: a warning is logged.
UnknownStatus(p, request, max) ==
    /\ Dispatch(clean_request_data(request).status_type) = "unknown"
    /\ Receive(p, max)
    /\ Return(p, request, "", "unknown")
    /\ UNCHANGED <<store, now>>

\* db.commit() failing after its flush, with no rollback: the written row
\* stays.
Commit_NoRollback(p, dbok) ==
    /\ pc[p] = "commit"
    /\ UNCHANGED <<now, received>>
    /\ LET work == pending[p]
           raised == IF dbok THEN "" ELSE "OperationalError"
       IN  IF work.kind = "insert"
           THEN IF UniqueIdFree(store, work.row)
                THEN /\ store' = Append(store, work.row)
                     /\ Return(p, work.request, raised, IF dbok THEN "created" ELSE "error")
                ELSE Return(p, work.request, "IntegrityError", "error") /\ UNCHANGED store
           ELSE /\ store' = [store EXCEPT ![work.id] =
                                Flushed(store[work.id], work.loaded, work.values)]
                /\ Return(p, work.request, raised, IF dbok THEN work.branch ELSE "error")

\* db.commit() of slot p: the flush and the commit, or the exception, the
\* handler's rollback and the gateway's error response.  dbok = FALSE: the
\* store fails.  An INSERT also fails on the unique index of acctuniqueid.
Commit(p, dbok) ==
    /\ pc[p] = "commit"
    /\ UNCHANGED <<now, received>>
    /\ LET work == pending[p] IN
       IF ~dbok
       THEN Return(p, work.request, "OperationalError", "error") /\ UNCHANGED store
       ELSE IF work.kind = "insert"
       THEN IF UniqueIdFree(store, work.row)
            THEN /\ store' = Append(store, work.row)
                 /\ Return(p, work.request, "", "created")
            ELSE Return(p, work.request, "IntegrityError", "error") /\ UNCHANGED store
       ELSE /\ store' = [store EXCEPT ![work.id] =
                            Flushed(store[work.id], work.loaded, work.values)]
            /\ Return(p, work.request, "", work.branch)

\* timedelta(days=1), in seconds and in ticks.
SecondsPerDay == 86400
TicksPerDay == SecondsPerDay * TicksPerSecond

\* Time passes.
Tick ==
    /\ now % TicksPerDay < MaxClock
    /\ now' = now + 1
    /\ UNCHANGED <<store, pc, req, pending, resp, outcome, redelivered, received>>

\* The steps of the slots P handling requests of RS, max requests in all.  A
\* request takes the lowest idle slot, so slot 2 is used only while slot 1 has
\* a request in flight.
Step(P, RS, max) ==
    \/ \E p \in P, request \in RS, dbok \in BOOLEAN :
            LowestIdle(p) /\ Start(p, request, dbok, max)
    \/ \E p \in P, request \in RS, dbok \in BOOLEAN :
            LowestIdle(p) /\ Stop(p, request, dbok, max)
    \/ \E p \in P, request \in RS, dbok \in BOOLEAN :
            LowestIdle(p) /\ InterimUpdate(p, request, dbok, max)
    \/ \E p \in P, request \in RS : LowestIdle(p) /\ PostAuth(p, request, max)
    \/ \E p \in P, request \in RS : LowestIdle(p) /\ UnknownStatus(p, request, max)
    \/ \E p \in P, dbok \in BOOLEAN : Commit(p, dbok)
    \/ Tick

\* One request at a time: each event is fully applied before the next.
Next == Step({1}, Requests, MaxEvents)

Spec == Init /\ [][Next]_vars

\* Requests in flight together, their store accesses interleaved.
ConcNext == Step(Procs, ConcRequests, MaxConcEvents)

SpecConc == Init /\ [][ConcNext]_vars

\* The race of one Start (slot 1) and one Stop (slot 2) on the empty store,
\* received in either order, their store accesses interleaved.
RaceNext ==
    \/ \E request \in ConcRequests, dbok \in BOOLEAN :
            req[1] = NoRequest /\ Start(1, request, dbok, MaxConcEvents)
    \/ \E request \in ConcRequests, dbok \in BOOLEAN :
            req[2] = NoRequest /\ Stop(2, request, dbok, MaxConcEvents)
    \/ \E p \in {1, 2}, dbok \in BOOLEAN : Commit(p, dbok)
    \/ Tick

SpecRace == Init /\ [][RaceNext]_vars

\* One request at a time, over several (username, session_id) pairs.
FrameNext == Step({1}, FrameRequests, MaxFrameEvents)

SpecFrame == Init /\ [][FrameNext]_vars

\* The query of a handler is sent and the store never answers.  The engine is
\* created with no timeout (create_engine(DATABASE_URL)) and the handler waits
\* in the driver: slot p stays blocked.
LookupStalls(p, request, max) ==
    /\ Dispatch(clean_request_data(request).status_type) \in {"start", "stop", "update"}
    /\ Receive(p, max)
    /\ pc' = [pc EXCEPT ![p] = "blocked"]
    /\ pending' = [pending EXCEPT ![p] = [kind |-> "query", request |-> request]]
    /\ UNCHANGED <<store, now, req, resp, outcome, redelivered>>

\* db.commit() of slot p is sent and the store never answers.
CommitStalls(p) ==
    /\ pc[p] = "commit"
    /\ pc' = [pc EXCEPT ![p] = "blocked"]
    /\ UNCHANGED <<store, now, req, pending, resp, outcome, redelivered, received>>

\* One request at a time, with a store that may stop answering.  A store
\* access that is answered, with a result or an error, does return.
LiveNext ==
    \/ Step({1}, UsageRequests, MaxLiveEvents)
    \/ \E request \in UsageRequests : LowestIdle(1) /\ LookupStalls(1, request, MaxLiveEvents)
    \/ CommitStalls(1)

SpecLive ==
    /\ Init
    /\ [][LiveNext]_vars
    /\ WF_vars(\E dbok \in BOOLEAN : Commit(1, dbok))

\* Table radacct is also written by FreeRADIUS itself, and its columns for
\* the start time, the session time and the two octet counters are nullable:
\* the open session of bob as FreeRADIUS may have left it.
FreeRadiusRows ==
    { [acctsessionid |-> "S1",
       acctuniqueid |-> "freeradius-1",
       username |-> "bob",
       nasipaddress |-> "10.0.0.1",
       acctstarttime |-> start,
       acctupdatetime |-> None,
       acctstoptime |-> None,
       acctsessiontime |-> time,
       acctinputoctets |-> input,
       acctoutputoctets |-> output,
       framedipaddress |-> None,
       callingstationid |-> None,
       calledstationid |-> None,
       acctterminatecause |-> None] :
        start \in {None, Some(0)}, time \in {None, Some(30)},
        input \in {None, Some(500)}, output \in {None, Some(700)} }

\* The engine starts on a table holding one row of FreeRADIUS.
InitNull ==
    /\ store \in { <<row>> : row \in FreeRadiusRows }
    /\ now = 0
    /\ pc = [p \in Procs |-> "idle"]
    /\ req = [p \in Procs |-> NoRequest]
    /\ pending = [p \in Procs |-> NoPending]
    /\ resp = [p \in Procs |-> NoResponse]
    /\ outcome = [p \in Procs |-> "none"]
    /\ redelivered = [p \in Procs |-> FALSE]
    /\ received = 0

NullNext == Step({1}, NullRequests, MaxNullEvents)

SpecNull == InitNull /\ [][NullNext]_vars

\* A day passes with no request in flight.
NextDay ==
    /\ now \div TicksPerDay < MaxDays
    /\ \A p \in Procs : pc[p] = "idle"
    /\ now' = now + TicksPerDay
    /\ UNCHANGED <<store, pc, req, pending, resp, outcome, redelivered, received>>

\* One request at a time, over several days: the behaviours the accounting
\* queries are evaluated on.
UsageNext == Step({1}, UsageRequests, MaxUsageEvents) \/ NextDay

SpecUsage == Init /\ [][UsageNext]_vars

\* ------------------------------------------------- the accounting queries
\* The queries of AccountingService read the committed rows.  Their clock,
\* datetime.utcnow(), is the clock of the handlers: the server's local time
\* is UTC.

\* `x or 0` on a nullable integer column.
OrZero(o) == IF o = None THEN 0 ELSE Get(o)

\* RadAcct.duration_seconds at time t.
duration_seconds(row, t) ==
    IF OrZero(row.acctsessiontime) # 0 THEN Get(row.acctsessiontime)
    ELSE IF row.acctstarttime = None THEN 0
    ELSE LET end == IF row.acctstoptime # None THEN Get(row.acctstoptime) ELSE t
             d == end - Get(row.acctstarttime)
         IN  IF d >= 0 THEN d \div TicksPerSecond ELSE -((-d) \div TicksPerSecond)

\* RadAcct.total_octets.
total_octets(row) == OrZero(row.acctinputoctets) + OrZero(row.acctoutputoctets)

\* ORDER BY key DESC: a row of key a may come before a row of key b.  The
\* database is PostgreSQL (DATABASE_URL), where NULL sorts as the largest
\* value: first in descending order.
Precedes(a, b) == a = None \/ (b # None /\ Get(a) >= Get(b))

\* ORDER BY acctstarttime DESC over the rows `ids`: the orders the database
\* may return them in (rows with equal start times come in any order).
NewestFirst(st, ids) ==
    { s \in [1..Cardinality(ids) -> ids] :
        \A a, b \in 1..Cardinality(ids) :
            a < b => /\ s[a] # s[b]
                     /\ Precedes(st[s[a]].acctstarttime, st[s[b]].acctstarttime) }

\* The query returning every row, closed ones included.
get_active_sessions_AllRecords(st) == NewestFirst(st, DOMAIN st)

\* AccountingService.get_active_sessions: the row ids it may return, in order.
get_active_sessions(st) ==
    NewestFirst(st, { i \in DOMAIN st : st[i].acctstoptime = None })

\* The dictionary the endpoint /active-sessions/ builds for a row at time t.
ActiveSessionEntry(row, t) ==
    [username |-> row.username,
     acctsessionid |-> row.acctsessionid,
     acctuniqueid |-> row.acctuniqueid,
     nasipaddress |-> row.nasipaddress,
     callingstationid |-> row.callingstationid,
     framedipaddress |-> row.framedipaddress,
     acctstarttime |-> row.acctstarttime,
     duration_seconds |-> duration_seconds(row, t),
     input_octets |-> OrZero(row.acctinputoctets),
     output_octets |-> OrZero(row.acctoutputoctets),
     total_octets |-> total_octets(row)]

\* datetime.utcnow() - timedelta(days=period_days) at time t.
PeriodStart(t, period_days) == t - period_days * TicksPerDay

\* WHERE acctstarttime >= start_date (no row with a NULL start time passes).
StartedSince(st, start_date) ==
    { i \in DOMAIN st :
        st[i].acctstarttime # None /\ Get(st[i].acctstarttime) >= start_date }

\* sum(getattr(s, column) or 0 for s in sessions)
RECURSIVE SumOrZero(_, _, _)
SumOrZero(st, ids, column) ==
    IF ids = {} THEN 0
    ELSE LET i == CHOOSE j \in ids : TRUE
         IN  OrZero(st[i][column]) + SumOrZero(st, ids \ {i}, column)

\* sum(s.duration_seconds for s in sessions) at time t.
RECURSIVE SumDurations(_, _, _)
SumDurations(st, ids, t) ==
    IF ids = {} THEN 0
    ELSE LET i == CHOOSE j \in ids : TRUE
         IN  duration_seconds(st[i], t) + SumDurations(st, ids \ {i}, t)

\* SQL SUM(column) over the rows `ids`: NULL values are skipped, and the sum
\* of no value is NULL.
SqlSum(st, ids, column) ==
    LET valued == { i \in ids : st[i][column] # None }
    IN  IF valued = {} THEN None ELSE Some(SumOrZero(st, valued, column))

\* SQL SUM(acctinputoctets + acctoutputoctets): a row with a NULL operand
\* adds nothing.
SqlSumTotal(st, ids) ==
    LET valued == { i \in ids : st[i].acctinputoctets # None
                                /\ st[i].acctoutputoctets # None }
    IN  IF valued = {} THEN None
        ELSE Some(SumOrZero(st, valued, "acctinputoctets")
                  + SumOrZero(st, valued, "acctoutputoctets"))

\* The statistics computed over every record of the user, whenever started.
get_user_bandwidth_usage_AllTime(st, username, period_days, t) ==
    LET sessions == { i \in DOMAIN st : st[i].username = username }
        download_total == SumOrZero(st, sessions, "acctinputoctets")
        upload_total == SumOrZero(st, sessions, "acctoutputoctets")
    IN  [username |-> username,
         period_days |-> period_days,
         download_octets |-> download_total,
         upload_octets |-> upload_total,
         total_octets |-> download_total + upload_total,
         total_time_seconds |-> SumDurations(st, sessions, t),
         session_count |-> Cardinality(sessions)]

\* AccountingService.get_user_bandwidth_usage at time t (the *_mb, *_gb and
\* *_hours keys, roundings of these totals, are left out).
get_user_bandwidth_usage(st, username, period_days, t) ==
    LET sessions == { i \in StartedSince(st, PeriodStart(t, period_days)) :
                        st[i].username = username }
        download_total == SumOrZero(st, sessions, "acctinputoctets")
        upload_total == SumOrZero(st, sessions, "acctoutputoctets")
    IN  [username |-> username,
         period_days |-> period_days,
         download_octets |-> download_total,
         upload_octets |-> upload_total,
         total_octets |-> download_total + upload_total,
         total_time_seconds |-> SumDurations(st, sessions, t),
         session_count |-> Cardinality(sessions)]

\* The global statistics computed over the sessions still open.
get_global_bandwidth_usage_OpenOnly(st, period_days, t) ==
    LET rows == { i \in DOMAIN st : st[i].acctstoptime = None }
        download_total == OrZero(SqlSum(st, rows, "acctinputoctets"))
        upload_total == OrZero(SqlSum(st, rows, "acctoutputoctets"))
    IN  [period_days |-> period_days,
         download_octets |-> download_total,
         upload_octets |-> upload_total,
         total_octets |-> download_total + upload_total,
         session_count |-> Cardinality(rows),
         active_users_count |-> Cardinality({ st[i].username : i \in rows })]

\* AccountingService.get_global_bandwidth_usage at time t (the *_gb keys and
\* total_users_count, a count over table radcheck, are left out).
get_global_bandwidth_usage(st, period_days, t) ==
    LET rows == StartedSince(st, PeriodStart(t, period_days))
        download_total == OrZero(SqlSum(st, rows, "acctinputoctets"))
        upload_total == OrZero(SqlSum(st, rows, "acctoutputoctets"))
    IN  [period_days |-> period_days,
         download_octets |-> download_total,
         upload_octets |-> upload_total,
         total_octets |-> download_total + upload_total,
         session_count |-> Cardinality(rows),
         active_users_count |->
            Cardinality({ st[i].username :
                            i \in { j \in DOMAIN st : st[j].acctstoptime = None } })]

\* AccountingService.get_daily_bandwidth_usage at time t.  The filter of its
\* query calls or_, a name the module never binds (it imports func, and_ and
\* desc): the first pass of the loop over range(days) raises NameError
\* before any query is sent.  With days <= 0 the loop body never runs.
get_daily_bandwidth_usage(st, days, t) ==
    IF days >= 1
    THEN [raised |-> "NameError", daily_usage |-> <<>>]
    ELSE [raised |-> "", daily_usage |-> <<>>]

\* The endpoint /daily-stats/: the list, or HTTP 500 with the exception's
\* text.
get_daily_bandwidth_stats(st, days, t) ==
    LET called == get_daily_bandwidth_usage(st, days, t)
    IN  IF called.raised = ""
        THEN [status_code |-> 200, body |-> called.daily_usage]
        ELSE [status_code |-> 500, body |-> <<>>]

\* round(octets / (1024 * 1024), 2), in hundredths of a megabyte: the
\* quotient is exact in binary floating point and round() rounds a tie to
\* the even neighbour.
OctetsPerMb == 1024 * 1024

RoundMb(octets) ==
    LET q == (octets * 100) \div OctetsPerMb
        r == (octets * 100) % OctetsPerMb
    IN  IF 2 * r > OctetsPerMb \/ (2 * r = OctetsPerMb /\ q % 2 = 1) THEN q + 1 ELSE q

\* The rows get_top_users_by_bandwidth groups under `username` (every row
\* has a username, so username != None holds throughout).
GroupOf(st, username, start_date) ==
    { i \in StartedSince(st, start_date) : st[i].username = username }

\* The dictionary built for one group.
TopUserEntry(st, username, ids) ==
    LET download == OrZero(SqlSum(st, ids, "acctinputoctets"))
        upload == OrZero(SqlSum(st, ids, "acctoutputoctets"))
    IN  [username |-> username,
         download_mb |-> RoundMb(download),
         upload_mb |-> RoundMb(upload),
         total_mb |-> RoundMb(download + upload)]

\* The query ordering the groups by ascending sum.
get_top_users_by_bandwidth_Ascending(st, limit, period_days, t) ==
    LET start_date == PeriodStart(t, period_days)
        groups == { st[i].username : i \in StartedSince(st, start_date) }
        n == Cardinality(groups)
        total(u) == SqlSumTotal(st, GroupOf(st, u, start_date))
        ordered == { s \in [1..n -> groups] :
                        \A a, b \in 1..n :
                            a < b => s[a] # s[b] /\ Precedes(total(s[b]), total(s[a])) }
    IN  { [k \in 1..Min(limit, n) |->
              TopUserEntry(st, s[k], GroupOf(st, s[k], start_date))] : s \in ordered }

\* AccountingService.get_top_users_by_bandwidth at time t: the lists it may
\* return (groups with equal sums come in any order; limit >= 0; the
\* total_gb and total_time_hours keys are left out).
get_top_users_by_bandwidth(st, limit, period_days, t) ==
    LET start_date == PeriodStart(t, period_days)
        groups == { st[i].username : i \in StartedSince(st, start_date) }
        n == Cardinality(groups)
        total(u) == SqlSumTotal(st, GroupOf(st, u, start_date))
        ordered == { s \in [1..n -> groups] :
                        \A a, b \in 1..n :
                            a < b => s[a] # s[b] /\ Precedes(total(s[a]), total(s[b])) }
    IN  { [k \in 1..Min(limit, n) |->
              TopUserEntry(st, s[k], GroupOf(st, s[k], start_date))] : s \in ordered }

\* ------------------------------------------------------------ properties
\* The rows of (username, session_id), and the open ones among them.
RecordsOf(st, u, s) ==
    { i \in DOMAIN st : st[i].username = u /\ st[i].acctsessionid = s }

OpenOf(st, u, s) == { i \in RecordsOf(st, u, s) : st[i].acctstoptime = {} }

\* A request is in flight at slot p, none at slot p.
InFlight(p) == pc[p] = "commit"

\* C1: when Start requests for the same (username, session_id) are handled
\* concurrently, exactly one record for the pair exists afterward: a pair
\* none of whose records has been stopped never has more than one record.
C1_ConcurrentStartsOneRecord ==
    \A u \in Users, s \in SessionIds :
        OpenOf(store, u, s) = RecordsOf(store, u, s)
            => Cardinality(RecordsOf(store, u, s)) <= 1

\* C2: with the events applied one at a time, at most one record with
\* stop_time == null exists for each (username, session_id).
C2_AtMostOneOpen ==
    \A u \in Users, s \in SessionIds : Cardinality(OpenOf(store, u, s)) <= 1

\* A duplicate Start has been answered while the pair had its open record
\* next to a closed one.
C2_Witness ==
    /\ outcome[1] = "duplicate"
    /\ Cardinality(OpenOf(store, req[1].username, req[1].session_id)) = 1
    /\ Cardinality(RecordsOf(store, req[1].username, req[1].session_id)) = 2

\* C3: a Start and a Stop for the same (username, session_id) race on a store
\* with no record for the pair; once both are answered with success the store
\* is what one of the two sequential orders leaves: the one record of the
\* Start, open as inserted (the Stop found nothing), or closed with the
\* values of the Stop.
ReportedBy(request) ==
    [time |-> {IntOrZero(request.session_time).val},
     input |-> {IntOrZero(request.input_octets).val},
     output |-> {IntOrZero(request.output_octets).val}]

OpenAsStarted(row, start) ==
    /\ row.acctstoptime = {}
    /\ row.acctupdatetime = {}
    /\ row.acctsessiontime = {}
    /\ row.acctinputoctets = ReportedBy(start).input
    /\ row.acctoutputoctets = ReportedBy(start).output

ClosedAsStopped(row, stop) ==
    /\ row.acctstoptime # {}
    /\ row.acctsessiontime = ReportedBy(stop).time
    /\ row.acctinputoctets = ReportedBy(stop).input
    /\ row.acctoutputoctets = ReportedBy(stop).output
    /\ row.acctterminatecause = stop.terminate_cause \ {""}

BothAnswered ==
    /\ ~InFlight(1) /\ resp[1].status = "success" /\ req[1].status_type = "Start"
    /\ ~InFlight(2) /\ resp[2].status = "success" /\ req[2].status_type = "Stop"
    /\ req[1].username = req[2].username
    /\ req[1].session_id = req[2].session_id

C3_StartStopRaceLinearizable ==
    BothAnswered =>
        /\ Len(store) = 1
        /\ store[1].username = req[1].username
        /\ store[1].acctsessionid = req[1].session_id
        /\ OpenAsStarted(store[1], req[1]) \/ ClosedAsStopped(store[1], req[2])

\* The Stop's lookup ran after the Start's commit: the record is closed.
C3_Witness == BothAnswered /\ outcome[2] = "stopped" /\ store[1].acctstoptime # {}

\* C4: once a Stop has committed for a record, the record never changes
\* again, under any interleaving of the handlers' steps.
C4_ClosedRecordImmutable ==
    [][\A i \in DOMAIN store : store[i].acctstoptime # {} => store'[i] = store[i]]_vars

\* The step answers the request of slot p; the step receives a request at
\* slot p; the request a receiving step takes in.
AnsweredIn(p) ==
    pc'[p] = "idle" /\ (pc[p] = "commit" \/ (LowestIdle(p) /\ received' # received))

ReceivedBy(p) == LowestIdle(p) /\ received' # received

Incoming(p) == IF pc'[p] = "commit" THEN pending'[p].request ELSE req'[p]

MaxOf(S) == CHOOSE i \in S : \A j \in S : j <= i

\* C5: after Start, Interim-Update*, Stop for one (username, session_id),
\* applied in order, the record is closed and holds the octet counts and the
\* session_time the Stop reported, not those of an earlier report nor a sum.
C5_StopStoresLastReport ==
    \A p \in Procs :
        (~InFlight(p) /\ outcome[p] = "stopped") =>
            LET row == store[MaxOf(RecordsOf(store, req[p].username,
                                             req[p].session_id))]
            IN  /\ row.acctstoptime # {}
                /\ row.acctinputoctets = ReportedBy(req[p]).input
                /\ row.acctoutputoctets = ReportedBy(req[p]).output
                /\ row.acctsessiontime = ReportedBy(req[p]).time

\* A Stop closed a record that an Interim-Update had written with other
\* octet counts.
C5_Witness ==
    /\ ~InFlight(1) /\ outcome[1] = "stopped"
    /\ req[1].input_octets = {"5000"}
    /\ \E i \in RecordsOf(store, req[1].username, req[1].session_id) :
          store[i].acctupdatetime # {} /\ store[i].acctinputoctets = {5000}

\* C6: an Interim-Update or Stop for a pair with no open record (no record,
\* or closed records only), whose lookup the store serves, is answered at
\* once with status success and changes no record.
C6_OrphanLeavesStore ==
    [][\A p \in Procs :
          (/\ ReceivedBy(p)
           /\ Incoming(p).status_type \in {"Stop", "Interim-Update"}
           /\ OpenOf(store, Incoming(p).username, Incoming(p).session_id) = {}
           /\ resp'[p].error # "OperationalError")
          => (pc'[p] = "idle" /\ store' = store /\ resp'[p].status = "success")]_vars

\* A Stop for a pair whose only record is closed has been answered.
C6_Witness ==
    /\ ~InFlight(1) /\ outcome[1] = "orphan" /\ resp[1].status = "success"
    /\ req[1].status_type = "Stop"
    /\ RecordsOf(store, req[1].username, req[1].session_id) # {}
    /\ OpenOf(store, req[1].username, req[1].session_id) = {}

\* C7: a Start for a pair that has an open record, whose lookup the store
\* serves, is answered at once with status success; no row is inserted and
\* no field of any record changes.
C7_DuplicateStartLeavesStore ==
    [][\A p \in Procs :
          (/\ ReceivedBy(p)
           /\ Incoming(p).status_type = "Start"
           /\ OpenOf(store, Incoming(p).username, Incoming(p).session_id) # {}
           /\ resp'[p].error # "OperationalError")
          => (pc'[p] = "idle" /\ store' = store /\ resp'[p].status = "success")]_vars

\* A duplicate Start carrying other values than the open record holds has
\* been answered.
C7_Witness ==
    /\ ~InFlight(1) /\ outcome[1] = "duplicate" /\ resp[1].status = "success"
    /\ req[1].framed_ip_address = {"10.0.0.5"}
    /\ \E i \in OpenOf(store, req[1].username, req[1].session_id) :
          store[i].framedipaddress = {}

\* The rows of two stores agree, their three timestamps aside.
WithoutTimes(row) ==
    [row EXCEPT !.acctstarttime = {}, !.acctupdatetime = {}, !.acctstoptime = {}]

SameButTimes(a, b) ==
    Len(a) = Len(b) /\ \A i \in DOMAIN a : WithoutTimes(a[i]) = WithoutTimes(b[i])

\* C8: an event delivered again right after it was applied with success
\* leaves the records and their field values, timestamps aside, as its
\* first application left them.
C8_RedeliveryIdempotent ==
    [][\A p \in Procs :
          (AnsweredIn(p) /\ redelivered'[p]) => SameButTimes(store', store)]_vars

\* An Interim-Update with non-zero counts was applied twice in a row.
C8_Witness ==
    /\ ~InFlight(1) /\ redelivered[1] /\ outcome[1] = "updated"
    /\ req[1].input_octets = {"1000"}

\* The store access of slot p fails in this step.
StoreFailedIn(p) ==
    \/ Commit(p, FALSE)
    \/ Start(p, Incoming(p), FALSE, MaxEvents)
    \/ Stop(p, Incoming(p), FALSE, MaxEvents)
    \/ InterimUpdate(p, Incoming(p), FALSE, MaxEvents)

\* C9: every request ends in a response whose status is success or error
\* (no exception reaches the caller), and a failed lookup or commit yields
\* status error.
C9_AlwaysStructuredResponse ==
    [][\A p \in Procs :
          AnsweredIn(p) =>
              /\ resp'[p].status \in {"success", "error"}
              /\ StoreFailedIn(p) => resp'[p].status = "error"]_vars

\* A Stop whose store access failed has been answered with status error.
C9_Witness ==
    /\ ~InFlight(1) /\ req[1].status_type = "Stop"
    /\ resp[1] = [status |-> "error", error |-> "OperationalError"]
    /\ OpenOf(store, req[1].username, req[1].session_id) # {}

\* C10: a request with an unparseable input_octets, output_octets or
\* session_time that the store serves is not rejected: it is answered with
\* status success.
Unparseable(request) ==
    \/ ~IntOrZero(request.input_octets).ok
    \/ ~IntOrZero(request.output_octets).ok
    \/ ~IntOrZero(request.session_time).ok

C10_MalformedNumberNotRejected ==
    \A p \in Procs :
        (/\ ~InFlight(p)
         /\ req[p].status_type \in {"Start", "Interim-Update", "Stop"}
         /\ Unparseable(req[p])
         /\ resp[p].error \notin {"OperationalError", "IntegrityError"})
        => resp[p].status = "success"

\* C11: a request whose status_type is none of Start, Stop, Interim-Update,
\* Post-Auth is answered at once with status success and the store is left
\* as it was.
KnownStatusTypes == {"Start", "Stop", "Interim-Update", "Post-Auth"}

C11_UnknownStatusAcknowledged ==
    [][\A p \in Procs :
          (ReceivedBy(p) /\ Incoming(p).status_type \notin KnownStatusTypes)
          => (/\ pc'[p] = "idle"
              /\ store' = store
              /\ resp'[p] = [status |-> "success", error |-> ""])]_vars

\* An Accounting-On request has been answered while the store held a record.
C11_Witness ==
    /\ ~InFlight(1) /\ outcome[1] = "unknown" /\ resp[1].status = "success"
    /\ req[1].status_type = "Accounting-On"
    /\ Len(store) > 0

\* C12: a Post-Auth event is answered at once with status success, whatever
\* the store holds for its (username, session_id) and whether or not the
\* store is available: no row is inserted and no row changes.
C12_PostAuthLeavesStore ==
    [][\A p \in Procs :
          (ReceivedBy(p) /\ Incoming(p).status_type = "Post-Auth")
          => (/\ pc'[p] = "idle"
              /\ store' = store
              /\ resp'[p] = [status |-> "success", error |-> ""])]_vars

\* A Post-Auth has been answered for a pair with no record, while the store
\* held a record of another user.
C12_Witness ==
    /\ ~InFlight(1) /\ outcome[1] = "post-auth" /\ resp[1].status = "success"
    /\ req[1].status_type = "Post-Auth"
    /\ RecordsOf(store, req[1].username, req[1].session_id) = {}
    /\ Len(store) > 0

\* C13: no record holds the empty string in called_station_id,
\* calling_station_id or framed_ip_address: a Start carrying "" for such a
\* field stores null, no later event turns it into "", and no entry of
\* activeSessions shows "" for it.
NetworkIds == {"framedipaddress", "callingstationid", "calledstationid"}

C13_NoEmptyNetworkId ==
    /\ \A i \in DOMAIN store : \A c \in NetworkIds : store[i][c] # {""}
    /\ \A p \in Procs :
          (~InFlight(p) /\ outcome[p] = "created") =>
              LET row == store[Len(store)]
              IN  /\ req[p].framed_ip_address = {""} => row.framedipaddress = {}
                  /\ req[p].calling_station_id = {""} => row.callingstationid = {}
                  /\ req[p].called_station_id = {""} => row.calledstationid = {}
    /\ \A s \in get_active_sessions(store) : \A k \in DOMAIN s :
          /\ ActiveSessionEntry(store[s[k]], now).framedipaddress # {""}
          /\ ActiveSessionEntry(store[s[k]], now).callingstationid # {""}

\* A Start carrying "" for framed_ip_address and called_station_id has
\* inserted its record next to an earlier one, and activeSessions lists it
\* with a null framedipaddress.
C13_Witness ==
    /\ ~InFlight(1) /\ outcome[1] = "created"
    /\ req[1].framed_ip_address = {""} /\ req[1].called_station_id = {""}
    /\ Len(store) > 1
    /\ \A c \in NetworkIds : store[Len(store)][c] = {}
    /\ \E s \in get_active_sessions(store) : \E k \in DOMAIN s :
          s[k] = Len(store) /\ ActiveSessionEntry(store[s[k]], now).framedipaddress = {}

\* C14: a Start for a pair with no open record, which parses and which the
\* store serves, inserts a new open record for the pair whose acctuniqueid
\* differs from that of every record already in the store.
C14_StartInsertsFreshRecord ==
    [][\A p \in Procs :
          (/\ AnsweredIn(p)
           /\ req'[p].status_type = "Start"
           /\ OpenOf(store, req'[p].username, req'[p].session_id) = {}
           /\ resp'[p].error \notin {"OperationalError", "ValueError"})
          => (/\ Len(store') = Len(store) + 1
              /\ SubSeq(store', 1, Len(store)) = store
              /\ store'[Len(store')].username = req'[p].username
              /\ store'[Len(store')].acctsessionid = req'[p].session_id
              /\ store'[Len(store')].acctstoptime = {}
              /\ \A i \in DOMAIN store :
                    store[i].acctuniqueid # store'[Len(store')].acctuniqueid)]_vars

\* C15: every list activeSessions may return holds exactly the records with
\* no stop time, each once, ordered by start time newest first; the record a
\* Start has just inserted is listed, and once a Stop is applied no record of
\* its (username, session_id) is listed.
C15_ActiveSessionsAreOpenRecords ==
    \A s \in get_active_sessions(store) :
        /\ { s[k] : k \in DOMAIN s } = { i \in DOMAIN store : store[i].acctstoptime = {} }
        /\ \A a, b \in DOMAIN s :
              a < b => /\ s[a] # s[b]
                       /\ Get(store[s[a]].acctstarttime) >= Get(store[s[b]].acctstarttime)
        /\ \A p \in Procs :
              /\ (~InFlight(p) /\ outcome[p] = "created")
                    => \E k \in DOMAIN s : s[k] = Len(store)
              /\ (~InFlight(p) /\ outcome[p] = "stopped")
                    => \A k \in DOMAIN s :
                          s[k] \notin RecordsOf(store, req[p].username, req[p].session_id)

\* A Start has inserted a second open record, started later than the other
\* open one: the list shows it first.
C15_Witness ==
    /\ ~InFlight(1) /\ outcome[1] = "created"
    /\ \E s \in get_active_sessions(store) :
          /\ Len(s) = 2
          /\ s[1] = Len(store)
          /\ Get(store[s[1]].acctstarttime) > Get(store[s[2]].acctstarttime)

\* The period lengths the queries are asked for, in days.
PeriodDays == 0..MaxDays

\* The records of user u started within the last d days, and the stored
\* input + output octets of a set of records.
InPeriod(u, d) ==
    { i \in DOMAIN store :
        store[i].username = u /\ Get(store[i].acctstarttime) >= now - d * TicksPerDay }

RECURSIVE SumTotals(_, _)
SumTotals(st, ids) ==
    IF ids = {} THEN 0
    ELSE LET i == CHOOSE j \in ids : TRUE
         IN  Get(st[i].acctinputoctets) + Get(st[i].acctoutputoctets)
                + SumTotals(st, ids \ {i})

\* Start, Interim-Update(1000, 2000), Stop(5000, 9000) have been applied for
\* the one session of alice, started within the last day.
AliceSessionDone ==
    /\ ~InFlight(1) /\ outcome[1] = "stopped"
    /\ req[1].username = "alice"
    /\ req[1].input_octets = {"5000"} /\ req[1].output_octets = {"9000"}
    /\ \E i \in DOMAIN store :
          /\ { j \in DOMAIN store : store[j].username = "alice" } = {i}
          /\ store[i].acctupdatetime # {}
          /\ i \in InPeriod("alice", 1)

\* C16: userUsage(username, periodDays) reports as total_octets the sum of
\* the stored input + output octets of the user's records started within the
\* period and as session_count the number of those records; after Start,
\* Interim-Update(1000, 2000), Stop(5000, 9000) for one session of alice it
\* reports total_octets = 14000 and session_count = 1.
C16_UserUsageSumsPeriodRecords ==
    /\ \A u \in Users, d \in PeriodDays :
          LET usage == get_user_bandwidth_usage(store, u, d, now)
          IN  /\ usage.total_octets = SumTotals(store, InPeriod(u, d))
              /\ usage.session_count = Cardinality(InPeriod(u, d))
    /\ AliceSessionDone =>
          LET usage == get_user_bandwidth_usage(store, "alice", 1, now)
          IN  usage.total_octets = 14000 /\ usage.session_count = 1

\* The session of alice is done and reported with 14000 octets over the last
\* day; time has passed since its Start, so a period of 0 days counts no
\* record.
C16_Witness ==
    /\ AliceSessionDone
    /\ get_user_bandwidth_usage(store, "alice", 1, now).total_octets = 14000
    /\ get_user_bandwidth_usage(store, "alice", 0, now).session_count = 0

\* The usernames with a record started within the last d days, and the sum
\* of one key of userUsage over a set of usernames.
UsersInPeriod(d) == { u \in Users : InPeriod(u, d) # {} }

RECURSIVE SumUsage(_, _, _)
SumUsage(us, d, key) ==
    IF us = {} THEN 0
    ELSE LET u == CHOOSE v \in us : TRUE
         IN  get_user_bandwidth_usage(store, u, d, now)[key] + SumUsage(us \ {u}, d, key)

\* C17: for every period, the download, upload and total octets of
\* globalUsage(periodDays) are the sums of those of userUsage(u, periodDays)
\* over the usernames u with a record started within the period, on the same
\* store and at the same time.
C17_GlobalIsSumOfUsers ==
    \A d \in PeriodDays :
        LET global == get_global_bandwidth_usage(store, d, now)
        IN  /\ global.download_octets = SumUsage(UsersInPeriod(d), d, "download_octets")
            /\ global.upload_octets = SumUsage(UsersInPeriod(d), d, "upload_octets")
            /\ global.total_octets = SumUsage(UsersInPeriod(d), d, "total_octets")

\* Two users have records with octets in the longest period, and a shorter
\* period leaves out the record of one of them.
C17_Witness ==
    /\ Cardinality(UsersInPeriod(MaxDays)) = 2
    /\ get_global_bandwidth_usage(store, MaxDays, now).download_octets = 1000
    /\ get_global_bandwidth_usage(store, MaxDays, now).upload_octets = 2000
    /\ \E d \in PeriodDays :
          /\ Cardinality(UsersInPeriod(d)) = 1
          /\ get_global_bandwidth_usage(store, d, now).total_octets
                # get_global_bandwidth_usage(store, MaxDays, now).total_octets

\* The records of user u started before the last d days and still open.
OpenBeforePeriod(u, d) ==
    { i \in DOMAIN store :
        /\ store[i].username = u
        /\ Get(store[i].acctstarttime) < now - d * TicksPerDay
        /\ store[i].acctstoptime = {} }

\* C18: userUsage(username, periodDays) counts, and sums the octets of, the
\* user's records started within the period and also the user's records
\* started before it that are still open.
C18_UserUsageIncludesOpenBefore ==
    \A u \in Users, d \in PeriodDays \ {0} :
        LET usage == get_user_bandwidth_usage(store, u, d, now)
            counted == InPeriod(u, d) \cup OpenBeforePeriod(u, d)
        IN  /\ usage.session_count = Cardinality(counted)
            /\ usage.total_octets = SumTotals(store, counted)

\* Day k of the last `days` days, as [from, to) in ticks; the records whose
\* interval [start_time, stop_time or now) overlaps it.
DayFrom(k, days) == now - (days - k + 1) * TicksPerDay

Overlapping(k, days) ==
    { i \in DOMAIN store :
        /\ Get(store[i].acctstarttime) < DayFrom(k, days) + TicksPerDay
        /\ store[i].acctstoptime = {} \/ Get(store[i].acctstoptime) >= DayFrom(k, days) }

\* A closed session started on one day and stopped on the next.
SpansTwoDays ==
    \E i \in DOMAIN store :
        /\ store[i].acctstoptime # {}
        /\ Get(store[i].acctstoptime) \div TicksPerDay
              = Get(store[i].acctstarttime) \div TicksPerDay + 1

\* C19: once a session has started on one day and stopped on the next,
\* dailyUsage(days) returns one entry for each of the last `days` days, each
\* holding the input and output octets summed over the sessions that overlap
\* the day.
C19_DailyUsageOneEntryPerDay ==
    SpansTwoDays =>
        \A days \in 1..MaxDays :
            LET response == get_daily_bandwidth_stats(store, days, now)
            IN  /\ response.status_code = 200
                /\ Len(response.body) = days
                /\ \A k \in 1..days :
                      response.body[k].download + response.body[k].upload
                          = SumTotals(store, Overlapping(k, days))

\* The limits topUsers is asked with, and the total octets of user u over
\* the records started within the last d days.
Limits == 0..(Cardinality(Users) + 1)

UserTotal(u, d) == SumTotals(store, InPeriod(u, d))

\* C20: every list topUsers(limit, periodDays) may return has at most limit
\* entries, one per username and only usernames with a record started within
\* the period, as many as the limit and those usernames allow, in
\* non-increasing order of the user's total octets; no username left out
\* has a larger total than a listed one.
C20_TopUsersOrderedAndLimited ==
    \A limit \in Limits, d \in PeriodDays :
        \A top \in get_top_users_by_bandwidth(store, limit, d, now) :
            LET listed == { top[k].username : k \in DOMAIN top }
            IN  /\ Len(top) <= limit
                /\ Len(top) = Min(limit, Cardinality(UsersInPeriod(d)))
                /\ Cardinality(listed) = Len(top)
                /\ listed \subseteq UsersInPeriod(d)
                /\ \A a, b \in DOMAIN top :
                      a < b => UserTotal(top[a].username, d) >= UserTotal(top[b].username, d)
                /\ \A u \in UsersInPeriod(d) \ listed, v \in listed :
                      UserTotal(u, d) <= UserTotal(v, d)

\* Two users have records in the period, bob with more octets than alice:
\* with limit 1 the list is bob alone, with limit 2 bob comes first.
C20_Witness ==
    /\ UsersInPeriod(MaxDays) = {"alice", "bob"}
    /\ UserTotal("bob", MaxDays) > UserTotal("alice", MaxDays)
    /\ \E top \in get_top_users_by_bandwidth(store, 1, MaxDays, now) :
          Len(top) = 1 /\ top[1].username = "bob"
    /\ \E top \in get_top_users_by_bandwidth(store, 2, MaxDays, now) :
          Len(top) = 2 /\ top[1].username = "bob" /\ top[2].username = "alice"

\* C21: every entry of activeSessions exposes as duration the whole seconds
\* from the record's start time to now, whatever session_time the
\* Interim-Updates of the session reported.
C21_ActiveDurationFromClock ==
    \A s \in get_active_sessions(store) : \A k \in DOMAIN s :
        ActiveSessionEntry(store[s[k]], now).duration_seconds
            = (now - Get(store[s[k]].acctstarttime)) \div TicksPerSecond

\* C24: every open record has a null terminate cause: a Start carrying a
\* non-empty terminate_cause does not store it.
C24_OpenRecordHasNoCause ==
    \A i \in DOMAIN store :
        store[i].acctstoptime = {} => store[i].acctterminatecause = {}

\* The stop of a session has just been applied: the record it closed.
ClosedBy(p) ==
    MaxOf({ i \in RecordsOf(store, req[p].username, req[p].session_id) :
              store[i].acctstoptime # {} })

\* C25: the duration exposed for a closed record is the session_time its
\* Stop reported, for every reported value, 0 included.
C25_ClosedDurationIsReported ==
    \A p \in Procs :
        (~InFlight(p) /\ outcome[p] = "stopped") =>
            duration_seconds(store[ClosedBy(p)], now) = IntOrZero(req[p].session_time).val

\* C26: an Interim-Update applied to the open record of its pair leaves the
\* record open, holding the octet counts and the session_time the event
\* reported, also when a reported value is lower than the stored one.
C26_UpdateStoresReport ==
    \A p \in Procs :
        (~InFlight(p) /\ outcome[p] = "updated") =>
            \E i \in OpenOf(store, req[p].username, req[p].session_id) :
                /\ store[i].acctinputoctets = ReportedBy(req[p]).input
                /\ store[i].acctoutputoctets = ReportedBy(req[p]).output
                /\ store[i].acctsessiontime = ReportedBy(req[p]).time

\* The session started with 1000 / 2000 octets (the Start that carried
\* Lost-Carrier), and an Interim-Update reporting zeros has been applied.
C26_Witness ==
    /\ ~InFlight(1) /\ outcome[1] = "updated"
    /\ req[1].input_octets = {"0"}
    /\ \E i \in OpenOf(store, req[1].username, req[1].session_id) :
          /\ store[i].acctterminatecause = {"Lost-Carrier"}
          /\ store[i].acctinputoctets = {0} /\ store[i].acctoutputoctets = {0}

\* C27: no step removes a record or changes the session id, username,
\* unique id or start time of one; a record is added only by the step that
\* answers a Start.
C27_RecordsOnlyGrowByStart ==
    [][/\ Len(store') >= Len(store)
       /\ \A i \in DOMAIN store :
             /\ store'[i].acctsessionid = store[i].acctsessionid
             /\ store'[i].username = store[i].username
             /\ store'[i].acctuniqueid = store[i].acctuniqueid
             /\ store'[i].acctstarttime = store[i].acctstarttime
       /\ Len(store') # Len(store) =>
             /\ Len(store') = Len(store) + 1
             /\ \E p \in Procs : AnsweredIn(p) /\ req'[p].status_type = "Start"]_vars

\* An Interim-Update has written a record after its start, next to a record
\* of the other user.
C27_Witness ==
    /\ ~InFlight(1) /\ outcome[1] = "updated"
    /\ Len(store) = 2
    /\ \E i \in DOMAIN store :
          /\ store[i].acctupdatetime # {}
          /\ Get(store[i].acctupdatetime) > Get(store[i].acctstarttime)

SingleStartUsers == { u \in Users : Cardinality(StartVariants(u)) = 1 }

\* C29: a copy of an applied Start delivered again after the Stop of its
\* session creates no record: the pair keeps its one, closed, record.
C29_LateStartRedeliveryIgnored ==
    \A u \in SingleStartUsers, s \in SessionIds :
        Cardinality(RecordsOf(store, u, s)) <= 1

\* C28: the step that answers an event for (username, session_id) leaves
\* every record of another pair as it was, records of other users with the
\* same session id and records of the same user with another session id
\* included.
C28_OtherPairsUntouched ==
    [][\A p \in Procs :
          AnsweredIn(p) =>
              \A i \in DOMAIN store :
                  (\/ store[i].username # req'[p].username
                   \/ store[i].acctsessionid # req'[p].session_id)
                  => (i \in DOMAIN store' /\ store'[i] = store[i])]_vars

\* An Interim-Update for (alice, S1) has been applied while the other
\* session of alice was open: that record holds what its Start stored.
C28_Witness ==
    /\ ~InFlight(1) /\ outcome[1] = "updated"
    /\ req[1].username = "alice" /\ req[1].session_id = "S1"
    /\ \E i \in OpenOf(store, "alice", "S1") : store[i].acctinputoctets = {1000}
    /\ \E i \in OpenOf(store, "alice", "S2") :
          store[i].acctupdatetime = {} /\ store[i].acctinputoctets = {0}

\* C22: every request received is eventually answered, with status success
\* or error, also when its store access never completes.
C22_EveryCallReturns ==
    \A p \in Procs :
        (pc[p] # "idle") ~> (pc[p] = "idle" /\ resp[p].status \in {"success", "error"})

\* The store with 0 in place of every null octet counter and session time.
ZeroIfNull(o) == IF o = {} THEN {0} ELSE o

ZeroFilled(st) ==
    [i \in DOMAIN st |->
        [st[i] EXCEPT !.acctinputoctets = ZeroIfNull(@),
                      !.acctoutputoctets = ZeroIfNull(@),
                      !.acctsessiontime = ZeroIfNull(@)]]

\* The lists of entries activeSessions may return on the store st.
ActiveSessionLists(st) ==
    { [k \in DOMAIN s |-> ActiveSessionEntry(st[s[k]], now)] : s \in get_active_sessions(st) }

NullSafeActive == ActiveSessionLists(store) = ActiveSessionLists(ZeroFilled(store))

NullSafeUser ==
    \A u \in Users, d \in PeriodDays :
        get_user_bandwidth_usage(store, u, d, now)
            = get_user_bandwidth_usage(ZeroFilled(store), u, d, now)

NullSafeGlobal ==
    \A d \in PeriodDays :
        get_global_bandwidth_usage(store, d, now)
            = get_global_bandwidth_usage(ZeroFilled(store), d, now)

NullSafeTop ==
    \A limit \in Limits, d \in PeriodDays :
        get_top_users_by_bandwidth(store, limit, d, now)
            = get_top_users_by_bandwidth(ZeroFilled(store), limit, d, now)

\* C23: on a store where records have a null start time, session time or
\* octet counter, activeSessions, userUsage, globalUsage and topUsers return
\* what they return when each null counter holds 0.  (dailyUsage raises on
\* every call, whatever the records hold, and is left aside here.)
C23_NullCountsAsZero ==
    NullSafeActive /\ NullSafeUser /\ NullSafeGlobal /\ NullSafeTop

====
